---- MODULE Spec2Model ----
(***************************************************************************)
(* State-machine model of gpiod_lua.c, the Lua binding of libgpiod v1.     *)
(* The binding keeps three kinds of userdata (LuaChip, LuaLine,            *)
(* LuaLineBulk) and the enumerator LuaChipIter; every Lua-visible method   *)
(* is one action.  The libgpiod objects behind the userdata (struct        *)
(* gpiod_chip, struct gpiod_line, struct gpiod_chip_iter) are the          *)
(* variables chipState, lineSt and iterState.  pc is where the one Lua     *)
(* thread is: running Lua code, or blocked inside a libgpiod call.         *)
(* lastCall records what the last method call did: the error it raised     *)
(* and the libgpiod functions it called.  The fields closed, released,     *)
(* offsets, from and iter of the userdata records are history: they are    *)
(* not fields of the C structs, they remember what happened to the handle. *)
(***************************************************************************)
EXTENDS Integers, Sequences, FiniteSets, TLC

\* ------------------------------------------------------------------ bounds
\* lines of a controller (gpiod_chip_num_lines)
NumLines == 2
\* struct gpiod_chip descriptors opened, by gpiod.chip_open or by an
\* enumerator
MaxChips == 1
\* LuaLine userdata created
MaxLineHandles == 1
\* LuaLineBulk userdata created
MaxBulks == 1
\* longest offsets table handed to chip:get_lines
MaxOffsets == 2
\* LuaChipIter userdata created
MaxIters == 1
\* gpiochip device nodes of the system
NumDevices == 1
\* edge events the kernel keeps queued for a line
MaxEvents == 2
\* longest wait, in clock ticks, asked of line:event_wait
MaxTimeout == 1

VARIABLES chips, lineHs, bulks, iters, chipState, lineSt, iterState, pc, lastCall

vars == <<chips, lineHs, bulks, iters, chipState, lineSt, iterState, pc, lastCall>>

\* ------------------------------------------------------------ Lua values
\* A lua_Integer is 64 bits wide.  It is kept as three digits,
\* value = hi * 2^32 + mid * 2^16 + lo with 0 <= mid, lo < 2^16, so that a
\* narrowing to a 32-bit C type is the dropping of hi.
Digit == 0 .. 65535

LuaInt(hi, mid, lo) == [t |-> "integer", hi |-> hi, mid |-> mid, lo |-> lo]

\* what lua_rawgeti pushes for an absent index
LuaNil == [t |-> "nil", hi |-> 0, mid |-> 0, lo |-> 0]

\* a string that is not a numeral
LuaStr == [t |-> "string", hi |-> 0, mid |-> 0, lo |-> 0]

Small(n) == LuaInt(0, 0, n)

\* -1 as a lua_Integer
MinusOne == LuaInt(-1, 65535, 65535)

\* luaL_checkinteger accepts the value
IsInteger(v) == v.t = "integer"

\* (unsigned int) x : the low 32 bits
ToUnsigned(x) == [mid |-> x.mid, lo |-> x.lo]

\* (int) x : the low 32 bits as two's complement
ToInt(x) == IF x.mid < 32768 THEN x.mid * 65536 + x.lo
            ELSE (x.mid - 65536) * 65536 + x.lo

\* u >= n for an unsigned int u and a small count n
UGe(u, n) == u.mid > 0 \/ u.lo >= n

\* lua_rawgeti(L, t, i)
TableGet(t, i) == IF i \in DOMAIN t THEN t[i] ELSE LuaNil

\* the element loops "for (i = 0; i < n; i++) { lua_rawgeti; luaL_checkinteger }":
\* they run to the end iff the first n elements are integers
MarshalOK(t, n) == \A i \in 1 .. n : IsInteger(TableGet(t, i))

\* -------------------------------------------------------- native objects
NULL == 0

\* struct gpiod_line * : the line of descriptor chip at offset
Line(chip, offset) == [chip |-> chip, offset |-> offset]

NULL_LINE == Line(NULL, 0)

Offsets == 0 .. NumLines - 1

\* a line nobody has requested.  req tells through which handle a line was
\* requested: g for group handle g, -h for line handle h
FreeLine == [state |-> "free", val |-> 0, events |-> <<>>, req |-> 0]

\* a freshly opened struct gpiod_chip: no line requested
FreshLines == [o \in Offsets |-> FreeLine]

\* the chip behind a line pointer has been closed: the pointer dangles
Dangling(l) == chipState[l.chip] = "closed"

\* ------------------------------------------------------- call recording
NoCall == [op |-> "init", kind |-> "module", h |-> 0, pre |-> FALSE,
           closed |-> FALSE, res |-> "ok", drv |-> {}, dangling |-> FALSE,
           arg |-> LuaNil, len |-> 0, out |-> 0, vals |-> <<>>,
           name |-> <<>>, num |-> [mid |-> 0, lo |-> 0], tbl |-> <<>>,
           ev |-> "none", blocked |-> FALSE, names |-> <<>>, values |-> <<>>,
           tmp |-> 0]

\* op on handle h of the given kind; the other fields are filled by the
\* action.  tmp counts the malloc'ed temporary arrays the call has not freed
\* when it returns or raises
Call(op, kind, h) == [NoCall EXCEPT !.op = op, !.kind = kind, !.h = h]

\* the process is gone after a crash
Crashed == lastCall.res = "crash"

\* the Lua thread is running Lua code, not inside a method
Idle == [op |-> "idle", h |-> 0, arg |-> LuaNil, left |-> 0]

\* the program can call a method
Running == ~Crashed /\ pc = Idle

Init ==
    /\ chips = <<>>
    /\ lineHs = <<>>
    /\ bulks = <<>>
    /\ iters = <<>>
    /\ chipState = <<>>
    /\ lineSt = <<>>
    /\ iterState = <<>>
    /\ pc = Idle
    /\ lastCall = NoCall

\* ------------------------------------------------------------ controller
\* a C string is the sequence of its characters
DigitChars == <<"0", "1", "2", "3", "4", "5", "6", "7", "8", "9">>

IsDigit(c) == \E i \in DOMAIN DigitChars : DigitChars[i] = c

DigitVal(c) == (CHOOSE i \in DOMAIN DigitChars : DigitChars[i] = c) - 1

\* x * 10 + d for a 64-bit unsigned long x kept as digits (the strings of
\* the model are too short to overflow 64 bits)
MulAdd(x, d) ==
    LET lo == x.lo * 10 + d
        mid == x.mid * 10 + lo \div 65536
    IN  [hi |-> x.hi * 10 + mid \div 65536, mid |-> mid % 65536, lo |-> lo % 65536]

\* -x modulo 2^32, the low 32 bits of the negated unsigned long
Negated(u) ==
    IF u.lo = 0 THEN [mid |-> (65536 - u.mid) % 65536, lo |-> 0]
    ELSE [mid |-> 65535 - u.mid, lo |-> 65536 - u.lo]

\* the first position at or after i that holds no white space
RECURSIVE SkipSpaces(_, _)
SkipSpaces(str, i) ==
    IF i <= Len(str) /\ str[i] = " " THEN SkipSpaces(str, i + 1) ELSE i

\* the digits from position i on: where they end and their value
RECURSIVE ScanDigits(_, _, _)
ScanDigits(str, i, acc) ==
    IF i <= Len(str) /\ IsDigit(str[i])
    THEN ScanDigits(str, i + 1, MulAdd(acc, DigitVal(str[i])))
    ELSE [endptr |-> i, val |-> acc]

\* strtoul(name, &endptr, 10) narrowed to unsigned int: white space, an
\* optional sign, digits.  With no digit nothing is converted: the result
\* is 0 and endptr is the start of the string
Strtoul(str) ==
    LET p == SkipSpaces(str, 1)
        signed == p <= Len(str) /\ str[p] \in {"+", "-"}
        q == IF signed THEN p + 1 ELSE p
        scan == ScanDigits(str, q, [hi |-> 0, mid |-> 0, lo |-> 0])
        u == [mid |-> scan.val.mid, lo |-> scan.val.lo]
    IN  IF scan.endptr = q THEN [endptr |-> 1, num |-> [mid |-> 0, lo |-> 0]]
        ELSE [endptr |-> scan.endptr,
              num |-> IF signed /\ str[p] = "-" THEN Negated(u) ELSE u]

\* "gpiochip<n>", the name of the device node of controller n
DeviceName(n) == <<"g", "p", "i", "o", "c", "h", "i", "p", DigitChars[n + 1]>>

\* gpiod_chip_open_by_name(name) finds a device to open
NamesDevice(name) == \E n \in 0 .. NumDevices - 1 : name = DeviceName(n)

\* gpiod_chip_open_by_number(num) finds a device to open
NumbersDevice(num) == num.mid = 0 /\ num.lo < NumDevices

\* gpiod.chip_open(name): by name first; if that fails and strtoul has
\* stopped at the end of the string, by number.  granted is the driver's
\* answer for a device that exists (the open may be refused)
chip_open(name) ==
    \E granted \in BOOLEAN :
        LET byName == granted /\ NamesDevice(name)
            conv == Strtoul(name)
            numeric == conv.endptr = Len(name) + 1
            byNumber == ~byName /\ numeric /\ granted /\ NumbersDevice(conv.num)
            call == [Call("chip_open", "module", 0) EXCEPT
                        !.name = name,
                        !.num = conv.num,
                        !.drv = {"gpiod_chip_open_by_name"} \cup
                                (IF ~byName /\ numeric
                                 THEN {"gpiod_chip_open_by_number"} ELSE {}),
                        !.vals = IF byName THEN <<1>>
                                 ELSE IF numeric
                                      THEN <<0, IF byNumber THEN 1 ELSE 0>>
                                      ELSE <<0>>]
        IN  /\ Running
            /\ Len(chipState) < MaxChips
            /\ IF byName \/ byNumber
               THEN /\ chipState' = Append(chipState, "open")
                    /\ lineSt' = Append(lineSt, FreshLines)
                    /\ chips' = Append(chips, [chip |-> Len(chipState) + 1,
                                               closed |-> FALSE,
                                               from |-> "chip_open", iter |-> 0])
                    /\ lastCall' = [call EXCEPT !.out = Len(chips) + 1]
                    /\ UNCHANGED <<lineHs, bulks, iters, iterState, pc>>
               ELSE /\ lastCall' = [call EXCEPT !.res = "DeviceNotFound"]
                    /\ UNCHANGED <<chips, lineHs, bulks, iters, chipState, lineSt,
                                   iterState, pc>>

\* what every controller method records of the handle it is called on:
\* pre tells whether close() had returned on it before
ChipCall(op, h) == [Call(op, "chip", h) EXCEPT !.pre = chips[h].closed]

\* the "if (!chip->chip) return luaL_error(L, "Chip is closed")" exit of a
\* controller method
ChipClosedError(op, h) ==
    /\ lastCall' = [ChipCall(op, h) EXCEPT !.res = "ClosedResource"]
    /\ UNCHANGED <<chips, lineHs, bulks, chipState, lineSt, iters, iterState, pc>>

\* chip:get_line(offset)
chip_get_line(h, offset) ==
    LET c == chips[h]
        u == ToUnsigned(offset)
        call == [ChipCall("chip_get_line", h) EXCEPT
                    !.arg = offset, !.drv = {"gpiod_chip_get_line"}]
    IN  IF c.chip = NULL THEN ChipClosedError("chip_get_line", h)
        ELSE IF UGe(u, NumLines)
        THEN /\ lastCall' = [call EXCEPT !.res = "LineNotFound"]
             /\ UNCHANGED <<chips, lineHs, bulks, chipState, lineSt, iters, iterState, pc>>
        ELSE /\ Len(lineHs) < MaxLineHandles
             /\ lineHs' = Append(lineHs, [line |-> Line(c.chip, u.lo), chip |-> c.chip,
                                       released |-> FALSE])
             /\ lastCall' = [call EXCEPT !.out = Len(lineHs) + 1]
             /\ UNCHANGED <<chips, bulks, chipState, lineSt, iters, iterState, pc>>

\* gpiod_chip_get_lines: the lines in the order of the offsets array, or
\* failure when one offset is not a line of the chip
DriverGetLinesOK(us) == \A i \in DOMAIN us : ~UGe(us[i], NumLines)

\* the offsets array filled back to front
MarshalOffsetsReversed(offsets) ==
    [i \in 1 .. Len(offsets) |-> ToUnsigned(offsets[Len(offsets) + 1 - i])]

\* the offsets array chip:get_lines fills: offsets[i] = (unsigned int) table[i + 1]
MarshalOffsets(offsets) == [i \in 1 .. Len(offsets) |-> ToUnsigned(offsets[i])]

\* chip:get_lines(offsets_table)
chip_get_lines(h, offsets) ==
    LET c == chips[h]
        n == Len(offsets)
        us == MarshalOffsets(offsets)
        call == [ChipCall("chip_get_lines", h) EXCEPT !.len = n]
    IN  IF c.chip = NULL THEN ChipClosedError("chip_get_lines", h)
        ELSE IF ~MarshalOK(offsets, n)
        THEN /\ lastCall' = [call EXCEPT !.res = "ArgError", !.tmp = 1]
             /\ UNCHANGED <<chips, lineHs, bulks, chipState, lineSt, iters, iterState, pc>>
        ELSE IF ~DriverGetLinesOK(us)
        THEN /\ lastCall' = [call EXCEPT !.res = "RequestFailed",
                                         !.drv = {"gpiod_chip_get_lines"}]
             /\ UNCHANGED <<chips, lineHs, bulks, chipState, lineSt, iters, iterState, pc>>
        ELSE /\ Len(bulks) < MaxBulks
             /\ bulks' = Append(bulks,
                    [bulk |-> [i \in 1 .. n |-> Line(c.chip, us[i].lo)],
                     chip |-> c.chip, offsets |-> offsets, released |-> FALSE])
             /\ lastCall' = [call EXCEPT !.drv = {"gpiod_chip_get_lines"},
                                         !.out = Len(bulks) + 1]
             /\ UNCHANGED <<chips, lineHs, chipState, lineSt, iters, iterState, pc>>

\* the offsets of the lines called name, names[o + 1] being the name the
\* kernel reports for line o
Matching(names, name) == {o \in Offsets : names[o + 1] = name}

\* gpiod_chip_find_line: the lines are compared in the order of their
\* offsets and the first one called name is returned, NumLines for no line
gpiod_chip_find_line(names, name) ==
    IF Matching(names, name) = {} THEN NumLines
    ELSE CHOOSE o \in Matching(names, name) :
             \A p \in Matching(names, name) : o <= p

\* chip:find_line(name) raising an error when no line has the name
chip_find_line_miss_raises(h, name, names) ==
    LET c == chips[h]
        found == gpiod_chip_find_line(names, name)
        call == [ChipCall("chip_find_line", h) EXCEPT
                    !.drv = {"gpiod_chip_find_line"}, !.name = name,
                    !.names = names]
    IN  IF c.chip = NULL THEN ChipClosedError("chip_find_line", h)
        ELSE IF found = NumLines
        THEN /\ lastCall' = [call EXCEPT !.res = "LineNotFound"]
             /\ UNCHANGED <<chips, lineHs, bulks, chipState, lineSt, iters, iterState, pc>>
        ELSE /\ Len(lineHs) < MaxLineHandles
             /\ lineHs' = Append(lineHs, [line |-> Line(c.chip, found), chip |-> c.chip,
                                       released |-> FALSE])
             /\ lastCall' = [call EXCEPT !.out = Len(lineHs) + 1]
             /\ UNCHANGED <<chips, bulks, chipState, lineSt, iters, iterState, pc>>

\* chip:find_line(name), on a chip whose lines are called names
chip_find_line(h, name, names) ==
    LET c == chips[h]
        found == gpiod_chip_find_line(names, name)
        call == [ChipCall("chip_find_line", h) EXCEPT
                    !.drv = {"gpiod_chip_find_line"}, !.name = name,
                    !.names = names]
    IN  IF c.chip = NULL THEN ChipClosedError("chip_find_line", h)
        ELSE IF found = NumLines
        THEN /\ lastCall' = [call EXCEPT !.res = "nil"]
             /\ UNCHANGED <<chips, lineHs, bulks, chipState, lineSt, iters, iterState, pc>>
        ELSE /\ Len(lineHs) < MaxLineHandles
             /\ lineHs' = Append(lineHs, [line |-> Line(c.chip, found), chip |-> c.chip,
                                       released |-> FALSE])
             /\ lastCall' = [call EXCEPT !.out = Len(lineHs) + 1]
             /\ UNCHANGED <<chips, bulks, chipState, lineSt, iters, iterState, pc>>

\* chip:get_all_lines()
chip_get_all_lines(h) ==
    LET c == chips[h]
        all == [i \in 1 .. NumLines |-> Small(i - 1)]
    IN  IF c.chip = NULL THEN ChipClosedError("chip_get_all_lines", h)
        ELSE /\ Len(bulks) < MaxBulks
             /\ bulks' = Append(bulks,
                    [bulk |-> [i \in 1 .. NumLines |-> Line(c.chip, i - 1)],
                     chip |-> c.chip, offsets |-> all, released |-> FALSE])
             /\ lastCall' = [ChipCall("chip_get_all_lines", h) EXCEPT
                                !.drv = {"gpiod_chip_get_all_lines"},
                                !.out = Len(bulks) + 1]
             /\ UNCHANGED <<chips, lineHs, chipState, lineSt, iters, iterState, pc>>

\* chip:name() without the closed check
chip_name_unchecked(h) ==
    /\ lastCall' = [ChipCall("chip_name", h) EXCEPT
                       !.drv = {"gpiod_chip_name"},
                       !.res = IF chips[h].chip = NULL THEN "crash" ELSE "ok"]
    /\ UNCHANGED <<chips, lineHs, bulks, chipState, lineSt, iters, iterState, pc>>

\* chip:name()
chip_name(h) ==
    IF chips[h].chip = NULL THEN ChipClosedError("chip_name", h)
    ELSE /\ lastCall' = [ChipCall("chip_name", h) EXCEPT !.drv = {"gpiod_chip_name"}]
         /\ UNCHANGED <<chips, lineHs, bulks, chipState, lineSt, iters, iterState, pc>>

\* chip:label()
chip_label(h) ==
    IF chips[h].chip = NULL THEN ChipClosedError("chip_label", h)
    ELSE /\ lastCall' = [ChipCall("chip_label", h) EXCEPT !.drv = {"gpiod_chip_label"}]
         /\ UNCHANGED <<chips, lineHs, bulks, chipState, lineSt, iters, iterState, pc>>

\* chip:num_lines()
chip_num_lines(h) ==
    IF chips[h].chip = NULL THEN ChipClosedError("chip_num_lines", h)
    ELSE /\ lastCall' = [ChipCall("chip_num_lines", h) EXCEPT
                            !.drv = {"gpiod_chip_num_lines"}, !.out = NumLines]
         /\ UNCHANGED <<chips, lineHs, bulks, chipState, lineSt, iters, iterState, pc>>

\* the state of a descriptor after one more gpiod_chip_close of it
Closed(st) == IF st = "open" THEN "closed" ELSE "closed_twice"

\* gpiod_chip_close(d): every line of the chip is released and freed, the
\* descriptor is closed
DriverChipClose(d) ==
    /\ chipState' = [chipState EXCEPT ![d] = Closed(@)]
    /\ lineSt' = [lineSt EXCEPT ![d] = FreshLines]

\* chip:close() that forgets "chip->chip = NULL"
chip_close_keeps_pointer(h) ==
    /\ DriverChipClose(chips[h].chip)
    /\ chips' = [chips EXCEPT ![h].closed = TRUE]
    /\ lastCall' = [ChipCall("chip_close", h) EXCEPT !.drv = {"gpiod_chip_close"}]
    /\ UNCHANGED <<lineHs, bulks, iters, iterState, pc>>

\* chip:close(), also the __gc metamethod of a controller
chip_close(h) ==
    LET c == chips[h]
    IN  IF c.chip # NULL
        THEN /\ DriverChipClose(c.chip)
             /\ chips' = [chips EXCEPT ![h].chip = NULL, ![h].closed = TRUE]
             /\ lastCall' = [ChipCall("chip_close", h) EXCEPT
                                !.drv = {"gpiod_chip_close"}]
             /\ UNCHANGED <<lineHs, bulks, iters, iterState, pc>>
        ELSE /\ chips' = [chips EXCEPT ![h].closed = TRUE]
             /\ lastCall' = ChipCall("chip_close", h)
             /\ UNCHANGED <<lineHs, bulks, chipState, lineSt, iters, iterState, pc>>

\* ------------------------------------------------------------------ line
\* what every line method records of the handle it is called on: pre tells
\* whether release() had returned on it before, closed whether the
\* controller it was derived from has been closed
LineCall(op, h) ==
    [Call(op, "line", h) EXCEPT !.pre = lineHs[h].released,
                                !.closed = (chipState[lineHs[h].chip] = "closed")]

\* the "if (!line->line) return luaL_error(L, "Line is released")" exit of a
\* line method
LineReleasedError(op, h) ==
    /\ lastCall' = [LineCall(op, h) EXCEPT !.res = "ReleasedResource"]
    /\ UNCHANGED <<chips, lineHs, bulks, chipState, lineSt, iters, iterState, pc>>

\* a libgpiod call fn that is handed a struct gpiod_line freed by
\* gpiod_chip_close: undefined behaviour, it may appear to succeed, report
\* an error or crash
DanglingCall(call, fn, err) ==
    /\ \E outcome \in {"ok", err, "crash"} :
           lastCall' = [call EXCEPT !.drv = {fn}, !.dangling = TRUE, !.res = outcome]
    /\ UNCHANGED <<chips, lineHs, bulks, chipState, lineSt, iters, iterState, pc>>

\* a request that takes the line whatever its state
LineRequestNoBusyCheck(op, fn, h, mode, v) ==
    LET l == lineHs[h].line
        call == LineCall(op, h)
    IN  IF l = NULL_LINE THEN LineReleasedError(op, h)
        ELSE IF Dangling(l) THEN DanglingCall(call, fn, "RequestFailed")
        ELSE \E granted \in BOOLEAN :
                IF granted
                THEN /\ lineSt' = [lineSt EXCEPT ![l.chip][l.offset] =
                                      [state |-> mode, val |-> v, events |-> <<>>, req |-> 0 - h]]
                     /\ lastCall' = [call EXCEPT !.drv = {fn}]
                     /\ UNCHANGED <<chips, lineHs, bulks, chipState, iters, iterState, pc>>
                ELSE /\ lastCall' = [call EXCEPT !.drv = {fn}, !.res = "RequestFailed"]
                     /\ UNCHANGED <<chips, lineHs, bulks, chipState, lineSt, iters, iterState, pc>>

\* gpiod_line_request_*(line, ...): EBUSY unless the line is free, and the
\* kernel may refuse (granted = FALSE) a line that another consumer holds
LineRequest(op, fn, h, mode, v) ==
    LET l == lineHs[h].line
        call == LineCall(op, h)
    IN  IF l = NULL_LINE THEN LineReleasedError(op, h)
        ELSE IF Dangling(l) THEN DanglingCall(call, fn, "RequestFailed")
        ELSE \E granted \in BOOLEAN :
                IF granted /\ lineSt[l.chip][l.offset].state = "free"
                THEN /\ lineSt' = [lineSt EXCEPT ![l.chip][l.offset] =
                                      [state |-> mode, val |-> v, events |-> <<>>, req |-> 0 - h]]
                     /\ lastCall' = [call EXCEPT !.drv = {fn}]
                     /\ UNCHANGED <<chips, lineHs, bulks, chipState, iters, iterState, pc>>
                ELSE /\ lastCall' = [call EXCEPT !.drv = {fn}, !.res = "RequestFailed"]
                     /\ UNCHANGED <<chips, lineHs, bulks, chipState, lineSt, iters, iterState, pc>>

\* line:request_input without the released check
line_request_input_unchecked(h) ==
    IF lineHs[h].line = NULL_LINE
    THEN /\ lastCall' = [LineCall("line_request_input", h) EXCEPT
                            !.drv = {"gpiod_line_request_input_flags"}, !.res = "crash"]
         /\ UNCHANGED <<chips, lineHs, bulks, chipState, lineSt, iters, iterState, pc>>
    ELSE LineRequest("line_request_input", "gpiod_line_request_input_flags", h, "input", 0)

\* line:request_input(consumer, [flags])
line_request_input(h) ==
    LineRequest("line_request_input", "gpiod_line_request_input_flags", h, "input", 0)

\* line:request_output(consumer, default_val, [flags])
line_request_output(h, default_val) ==
    LineRequest("line_request_output", "gpiod_line_request_output_flags", h,
                "output", IF default_val # 0 THEN 1 ELSE 0)

\* line:request_rising_edge_events(consumer)
line_request_rising_edge_events(h) ==
    LineRequest("line_request_rising_edge_events",
                "gpiod_line_request_rising_edge_events", h, "rising", 0)

\* line:request_falling_edge_events(consumer)
line_request_falling_edge_events(h) ==
    LineRequest("line_request_falling_edge_events",
                "gpiod_line_request_falling_edge_events", h, "falling", 0)

\* line:request_both_edges_events(consumer)
line_request_both_edges_events(h) ==
    LineRequest("line_request_both_edges_events",
                "gpiod_line_request_both_edges_events", h, "both", 0)

\* line:request_rising_edge_events_flags(consumer, flags)
line_request_rising_edge_events_flags(h) ==
    LineRequest("line_request_rising_edge_events_flags",
                "gpiod_line_request_rising_edge_events_flags", h, "rising", 0)

\* line:request_falling_edge_events_flags(consumer, flags)
line_request_falling_edge_events_flags(h) ==
    LineRequest("line_request_falling_edge_events_flags",
                "gpiod_line_request_falling_edge_events_flags", h, "falling", 0)

\* line:request_both_edges_events_flags(consumer, flags)
line_request_both_edges_events_flags(h) ==
    LineRequest("line_request_both_edges_events_flags",
                "gpiod_line_request_both_edges_events_flags", h, "both", 0)

\* the level gpiod_line_get_value may report for a requested line: what was
\* written to an output, whatever the pin carries otherwise
Levels(st) == IF st.state = "output" THEN {st.val} ELSE {0, 1}

\* line:get_value() that gives the line up when the driver's read fails
line_get_value_drops_line(h) ==
    LET l == lineHs[h].line
        call == LineCall("line_get_value", h)
    IN  IF l = NULL_LINE THEN LineReleasedError("line_get_value", h)
        ELSE IF Dangling(l) THEN DanglingCall(call, "gpiod_line_get_value", "IOFailure")
        ELSE \E io \in BOOLEAN :
                IF io /\ lineSt[l.chip][l.offset].state # "free"
                THEN /\ \E v \in Levels(lineSt[l.chip][l.offset]) :
                            lastCall' = [call EXCEPT !.drv = {"gpiod_line_get_value"},
                                                     !.out = v]
                     /\ UNCHANGED <<chips, lineHs, bulks, chipState, lineSt, iters, iterState, pc>>
                ELSE /\ lastCall' = [call EXCEPT !.drv = {"gpiod_line_get_value"},
                                                 !.res = "IOFailure"]
                     /\ lineHs' = [lineHs EXCEPT ![h].line = NULL_LINE]
                     /\ UNCHANGED <<chips, bulks, chipState, lineSt, iters, iterState, pc>>

\* line:get_value()
line_get_value(h) ==
    LET l == lineHs[h].line
        call == LineCall("line_get_value", h)
    IN  IF l = NULL_LINE THEN LineReleasedError("line_get_value", h)
        ELSE IF Dangling(l) THEN DanglingCall(call, "gpiod_line_get_value", "IOFailure")
        ELSE /\ \E io \in BOOLEAN :
                   IF io /\ lineSt[l.chip][l.offset].state # "free"
                   THEN \E v \in Levels(lineSt[l.chip][l.offset]) :
                           lastCall' = [call EXCEPT !.drv = {"gpiod_line_get_value"},
                                                    !.out = v]
                   ELSE lastCall' = [call EXCEPT !.drv = {"gpiod_line_get_value"},
                                                 !.res = "IOFailure"]
             /\ UNCHANGED <<chips, lineHs, bulks, chipState, lineSt, iters, iterState, pc>>

\* line:set_value(value)
line_set_value(h, value) ==
    LET l == lineHs[h].line
        call == LineCall("line_set_value", h)
    IN  IF l = NULL_LINE THEN LineReleasedError("line_set_value", h)
        ELSE IF Dangling(l) THEN DanglingCall(call, "gpiod_line_set_value", "IOFailure")
        ELSE \E io \in BOOLEAN :
                IF io /\ lineSt[l.chip][l.offset].state = "output"
                THEN /\ lineSt' = [lineSt EXCEPT ![l.chip][l.offset].val =
                                      IF value # 0 THEN 1 ELSE 0]
                     /\ lastCall' = [call EXCEPT !.drv = {"gpiod_line_set_value"}]
                     /\ UNCHANGED <<chips, lineHs, bulks, chipState, iters, iterState, pc>>
                ELSE /\ lastCall' = [call EXCEPT !.drv = {"gpiod_line_set_value"},
                                                 !.res = "IOFailure"]
                     /\ UNCHANGED <<chips, lineHs, bulks, chipState, lineSt, iters, iterState, pc>>

\* line:update(): gpiod_line_update asks the kernel for the line's info
\* again, which may fail
line_update(h) ==
    LET l == lineHs[h].line
        call == LineCall("line_update", h)
    IN  IF l = NULL_LINE THEN LineReleasedError("line_update", h)
        ELSE IF Dangling(l) THEN DanglingCall(call, "gpiod_line_update", "IOFailure")
        ELSE /\ \E io \in BOOLEAN :
                   lastCall' = [call EXCEPT !.drv = {"gpiod_line_update"},
                                            !.res = IF io THEN "ok" ELSE "IOFailure"]
             /\ UNCHANGED <<chips, lineHs, bulks, chipState, lineSt, iters, iterState, pc>>

\* line:offset()
line_offset(h) ==
    LET l == lineHs[h].line
        call == LineCall("line_offset", h)
    IN  IF l = NULL_LINE THEN LineReleasedError("line_offset", h)
        ELSE IF Dangling(l) THEN DanglingCall(call, "gpiod_line_offset", "ok")
        ELSE /\ lastCall' = [call EXCEPT !.drv = {"gpiod_line_offset"}, !.out = l.offset]
             /\ UNCHANGED <<chips, lineHs, bulks, chipState, lineSt, iters, iterState, pc>>

\* line:release() that forgets "line->line = NULL"
line_release_keeps_pointer(h) ==
    LET l == lineHs[h].line
    IN  /\ l # NULL_LINE
        /\ ~Dangling(l)
        /\ lineSt' = [lineSt EXCEPT ![l.chip][l.offset] = FreeLine]
        /\ lineHs' = [lineHs EXCEPT ![h].released = TRUE]
        /\ lastCall' = [LineCall("line_release", h) EXCEPT !.drv = {"gpiod_line_release"}]
        /\ UNCHANGED <<chips, bulks, chipState, iters, iterState, pc>>

\* line:release(), also the __gc metamethod of a line
line_release(h) ==
    LET l == lineHs[h].line
        call == LineCall("line_release", h)
    IN  IF l # NULL_LINE
        THEN IF Dangling(l)
             THEN \E outcome \in {"ok", "crash"} :
                     /\ lastCall' = [call EXCEPT !.drv = {"gpiod_line_release"},
                                                 !.dangling = TRUE, !.res = outcome]
                     /\ lineHs' = IF outcome = "ok"
                                  THEN [lineHs EXCEPT ![h].line = NULL_LINE,
                                                      ![h].released = TRUE]
                                  ELSE lineHs
                     /\ UNCHANGED <<chips, bulks, chipState, lineSt, iters, iterState, pc>>
             ELSE /\ lineSt' = [lineSt EXCEPT ![l.chip][l.offset] = FreeLine]
                  /\ lineHs' = [lineHs EXCEPT ![h].line = NULL_LINE,
                                               ![h].released = TRUE]
                  /\ lastCall' = [call EXCEPT !.drv = {"gpiod_line_release"}]
                  /\ UNCHANGED <<chips, bulks, chipState, iters, iterState, pc>>
        ELSE /\ lineHs' = [lineHs EXCEPT ![h].released = TRUE]
             /\ lastCall' = call
             /\ UNCHANGED <<chips, bulks, chipState, lineSt, iters, iterState, pc>>

\* the modes in which the kernel queues the edges of a line
EdgeModes == {"rising", "falling", "both"}

\* the events a line requested in the given mode can report
Edges(mode) == CASE mode = "rising" -> {"rising_edge"}
                 [] mode = "falling" -> {"falling_edge"}
                 [] mode = "both" -> {"rising_edge", "falling_edge"}
                 [] OTHER -> {}

\* the kernel queues an edge of a line requested for edge events (a full
\* queue drops it)
EdgeEvent(d, o, e) ==
    /\ ~Crashed
    /\ chipState[d] = "open"
    /\ e \in Edges(lineSt[d][o].state)
    /\ Len(lineSt[d][o].events) < MaxEvents
    /\ lineSt' = [lineSt EXCEPT ![d][o].events = Append(@, e)]
    /\ lastCall' = Call("edge", "kernel", 0)
    /\ UNCHANGED <<chips, lineHs, bulks, iters, chipState, iterState, pc>>

\* a clock tick passes while the thread is blocked in a timed wait
Tick ==
    /\ ~Crashed
    /\ pc.op = "line_event_wait"
    /\ pc.left > 0
    /\ pc' = [pc EXCEPT !.left = @ - 1]
    /\ lastCall' = Call("tick", "clock", 0)
    /\ UNCHANGED <<chips, lineHs, bulks, iters, chipState, lineSt, iterState>>

\* luaL_optnumber(L, 2, d) for the timeouts of the model, whole seconds
\* that a lua_Number holds exactly
OptNumber(v, d) == IF v.t = "nil" THEN d ELSE ToInt(v)

\* an event_wait that takes the event it finds off the queue
EventWaitDoneConsuming(call, l, ret) ==
    /\ lastCall' = IF ret < 0
                   THEN [call EXCEPT !.drv = {"gpiod_line_event_wait"},
                                     !.res = "IOFailure"]
                   ELSE [call EXCEPT !.drv = {"gpiod_line_event_wait"},
                                     !.out = IF ret > 0 THEN 1 ELSE 0,
                                     !.ev = IF ret > 0
                                            THEN Head(lineSt[l.chip][l.offset].events)
                                            ELSE "none"]
    /\ lineSt' = IF ret > 0 THEN [lineSt EXCEPT ![l.chip][l.offset].events = Tail(@)]
                 ELSE lineSt
    /\ pc' = Idle
    /\ UNCHANGED <<chips, lineHs, bulks, iters, chipState, iterState>>

\* the rest of line:event_wait once gpiod_line_event_wait has returned ret
EventWaitDone(call, l, ret) ==
    /\ lastCall' = IF ret < 0
                   THEN [call EXCEPT !.drv = {"gpiod_line_event_wait"},
                                     !.res = "IOFailure"]
                   ELSE [call EXCEPT !.drv = {"gpiod_line_event_wait"},
                                     !.out = IF ret > 0 THEN 1 ELSE 0,
                                     !.ev = IF ret > 0
                                            THEN Head(lineSt[l.chip][l.offset].events)
                                            ELSE "none"]
    /\ pc' = Idle
    /\ UNCHANGED <<chips, lineHs, bulks, iters, chipState, lineSt, iterState>>

\* a wait whose timeout is never handed to the poll
WaitDeadlineNone(timeout) == -1

\* the timeout_ptr handed to gpiod_line_event_wait: the seconds to wait, -1
\* for NULL (no limit)
WaitDeadline(timeout) == IF timeout >= 0 THEN timeout ELSE -1

\* line:event_wait(timeout_sec).  gpiod_line_event_wait polls the event
\* descriptor of the line: a line not requested for events has none (-1),
\* a queued event ends the poll at once (1), a zero timeout ends it at once
\* (0); otherwise the thread blocks in the poll, for timeout_sec seconds or,
\* when timeout_sec is absent or negative (timeout_ptr = NULL), without limit
line_event_wait(h, timeout_arg) ==
    LET l == lineHs[h].line
        call == [LineCall("line_event_wait", h) EXCEPT !.arg = timeout_arg]
        timeout == OptNumber(timeout_arg, -1)
    IN  IF timeout_arg.t \notin {"nil", "integer"}
        THEN /\ lastCall' = [call EXCEPT !.res = "ArgError"]
             /\ UNCHANGED <<chips, lineHs, bulks, iters, chipState, lineSt, iterState, pc>>
        ELSE IF l = NULL_LINE THEN LineReleasedError("line_event_wait", h)
        ELSE IF Dangling(l) THEN DanglingCall(call, "gpiod_line_event_wait", "IOFailure")
        ELSE IF lineSt[l.chip][l.offset].state \notin EdgeModes
        THEN EventWaitDone(call, l, -1)
        ELSE IF lineSt[l.chip][l.offset].events # <<>>
        THEN \E ret \in {-1, 1} : EventWaitDone(call, l, ret)
        ELSE IF timeout = 0
        THEN \E ret \in {-1, 0} : EventWaitDone(call, l, ret)
        ELSE /\ pc' = [op |-> "line_event_wait", h |-> h, arg |-> timeout_arg,
                       left |-> WaitDeadline(timeout)]
             /\ lastCall' = [call EXCEPT !.drv = {"gpiod_line_event_wait"},
                                         !.res = "blocked"]
             /\ UNCHANGED <<chips, lineHs, bulks, iters, chipState, lineSt, iterState>>

\* the poll of a blocked line:event_wait ends: an event has been queued
\* (1), the timeout has passed (0) or the poll was interrupted (-1)
line_event_wait_return(ret) ==
    /\ ~Crashed
    /\ pc.op = "line_event_wait"
    /\ LET l == lineHs[pc.h].line
           call == [LineCall("line_event_wait", pc.h) EXCEPT
                       !.arg = pc.arg, !.blocked = TRUE]
       IN  /\ ret = 1 => lineSt[l.chip][l.offset].events # <<>>
           /\ ret = 0 => (lineSt[l.chip][l.offset].events = <<>> /\ pc.left = 0)
           /\ EventWaitDone(call, l, ret)

\* the rest of line:event_read once gpiod_line_event_read has returned:
\* with got it has taken the oldest event off the queue, else it failed
EventReadDone(call, l, got) ==
    /\ IF got
       THEN /\ lineSt' = [lineSt EXCEPT ![l.chip][l.offset].events = Tail(@)]
            /\ lastCall' = [call EXCEPT !.drv = {"gpiod_line_event_read"},
                                        !.len = Len(lineSt[l.chip][l.offset].events),
                                        !.ev = Head(lineSt[l.chip][l.offset].events)]
       ELSE /\ lineSt' = lineSt
            /\ lastCall' = [call EXCEPT !.drv = {"gpiod_line_event_read"},
                                        !.len = Len(lineSt[l.chip][l.offset].events),
                                        !.res = "IOFailure"]
    /\ pc' = Idle
    /\ UNCHANGED <<chips, lineHs, bulks, iters, chipState, iterState>>

\* line:event_read().  gpiod_line_event_read reads the event descriptor of
\* the line: a line not requested for events has none (-1); the read takes
\* the oldest queued event, and with no event queued it blocks until one
\* arrives (the descriptor is a blocking one)
line_event_read(h) ==
    LET l == lineHs[h].line
        call == LineCall("line_event_read", h)
    IN  IF l = NULL_LINE THEN LineReleasedError("line_event_read", h)
        ELSE IF Dangling(l) THEN DanglingCall(call, "gpiod_line_event_read", "IOFailure")
        ELSE IF lineSt[l.chip][l.offset].state \notin EdgeModes
        THEN EventReadDone(call, l, FALSE)
        ELSE IF lineSt[l.chip][l.offset].events # <<>>
        THEN \E got \in BOOLEAN : EventReadDone(call, l, got)
        ELSE /\ pc' = [op |-> "line_event_read", h |-> h, arg |-> LuaNil, left |-> -1]
             /\ lastCall' = [call EXCEPT !.drv = {"gpiod_line_event_read"},
                                         !.res = "blocked"]
             /\ UNCHANGED <<chips, lineHs, bulks, iters, chipState, lineSt, iterState>>

\* the read of a blocked line:event_read ends: an event has arrived, or
\* the read was interrupted
line_event_read_return(got) ==
    /\ ~Crashed
    /\ pc.op = "line_event_read"
    /\ LET l == lineHs[pc.h].line
           call == [LineCall("line_event_read", pc.h) EXCEPT !.blocked = TRUE]
       IN  /\ got => lineSt[l.chip][l.offset].events # <<>>
           /\ EventReadDone(call, l, got)

\* ------------------------------------------------------------ line group
\* gpiod_line_bulk_num_lines(&bulk->bulk)
BulkNumLines(b) == Len(b.bulk)

\* the last position of the group that holds the line at offset o, 0 if none
Pos(b, o) ==
    LET at == {i \in DOMAIN b.bulk : b.bulk[i].offset = o}
    IN  IF at = {} THEN 0 ELSE CHOOSE i \in at : \A j \in at : j <= i

\* libgpiod reads bulk->lines[0]->chip before it looks at the count, and the
\* lines of a closed chip are freed: a bulk call on an empty group or on the
\* group of a closed chip is undefined behaviour
BulkUndefined(b) == BulkNumLines(b) = 0 \/ chipState[b.chip] = "closed"

\* the outcomes of such a call
UndefinedBulkCall(call, fn, err) ==
    /\ \E outcome \in {"ok", err, "crash"} :
           lastCall' = [call EXCEPT !.drv = {fn}, !.res = outcome,
                                    !.dangling = call.closed]
    /\ UNCHANGED <<chips, lineHs, bulks, chipState, lineSt, iters, iterState, pc>>

\* gpiod_line_request_bulk: EBUSY unless every line is free; one kernel
\* request covers the whole group, so a line listed twice is refused, and
\* so is a line another consumer holds (granted = FALSE)
BulkRequestable(b) ==
    /\ \A i \in DOMAIN b.bulk : lineSt[b.chip][b.bulk[i].offset].state = "free"
    /\ \A i, j \in DOMAIN b.bulk : b.bulk[i].offset = b.bulk[j].offset => i = j

\* the lines of the chip after group h is requested as mode with values
Requested(b, h, mode, values) ==
    [o \in Offsets |->
        IF Pos(b, o) = 0 THEN lineSt[b.chip][o]
        ELSE [state |-> mode, val |-> IF values[Pos(b, o)] # 0 THEN 1 ELSE 0,
              events |-> <<>>, req |-> h]]

\* the lines of the chip after gpiod_line_set_value_bulk has written
\* values[i] to line i of the group, for i = 0 .. num_lines - 1 in turn
Written(b, values) ==
    [o \in Offsets |->
        IF Pos(b, o) = 0 THEN lineSt[b.chip][o]
        ELSE [lineSt[b.chip][o] EXCEPT !.val = IF values[Pos(b, o)] # 0 THEN 1 ELSE 0]]

\* the request shared by bulk:request_input and bulk:request_output
BulkRequest(call, fn, h, mode, values) ==
    LET b == bulks[h]
    IN  IF BulkUndefined(b) THEN UndefinedBulkCall(call, fn, "RequestFailed")
        ELSE \E granted \in BOOLEAN :
                IF granted /\ BulkRequestable(b)
                THEN /\ lineSt' = [lineSt EXCEPT ![b.chip] = Requested(b, h, mode, values)]
                     /\ lastCall' = [call EXCEPT !.drv = {fn}]
                     /\ UNCHANGED <<chips, lineHs, bulks, chipState, iters, iterState, pc>>
                ELSE /\ lastCall' = [call EXCEPT !.drv = {fn}, !.res = "RequestFailed"]
                     /\ UNCHANGED <<chips, lineHs, bulks, chipState, lineSt, iters, iterState, pc>>

\* what every group method records of the handle it is called on
BulkCall(op, h) ==
    [Call(op, "bulk", h) EXCEPT !.pre = bulks[h].released,
                                !.closed = (chipState[bulks[h].chip] = "closed")]

\* bulk:num_lines()
bulk_num_lines(h) ==
    /\ lastCall' = [BulkCall("bulk_num_lines", h) EXCEPT !.out = BulkNumLines(bulks[h])]
    /\ UNCHANGED <<chips, lineHs, bulks, chipState, lineSt, iters, iterState, pc>>

\* bulk:get_line(index)
bulk_get_line(h, index) ==
    LET b == bulks[h]
        u == ToUnsigned(index)
        call == [BulkCall("bulk_get_line", h) EXCEPT !.arg = index]
    IN  IF UGe(u, BulkNumLines(b))
        THEN /\ lastCall' = [call EXCEPT !.res = "IndexOutOfRange"]
             /\ UNCHANGED <<chips, lineHs, bulks, chipState, lineSt, iters, iterState, pc>>
        ELSE /\ Len(lineHs) < MaxLineHandles
             /\ lineHs' = Append(lineHs, [line |-> b.bulk[u.lo + 1], chip |-> b.chip,
                                       released |-> FALSE])
             /\ lastCall' = [call EXCEPT !.out = Len(lineHs) + 1]
             /\ UNCHANGED <<chips, bulks, chipState, lineSt, iters, iterState, pc>>

\* bulk:request_input(consumer, [flags])
bulk_request_input(h) ==
    BulkRequest(BulkCall("bulk_request_input", h), "gpiod_line_request_bulk_input_flags",
                h, "input", [i \in 1 .. BulkNumLines(bulks[h]) |-> 0])

\* bulk:request_output(consumer, default_vals, [flags])
bulk_request_output(h, default_vals) ==
    LET num_lines == BulkNumLines(bulks[h])
        call == [BulkCall("bulk_request_output", h) EXCEPT !.len = Len(default_vals)]
    IN  IF ~MarshalOK(default_vals, num_lines)
        THEN /\ lastCall' = [call EXCEPT !.res = "ArgError", !.tmp = 1]
             /\ UNCHANGED <<chips, lineHs, bulks, chipState, lineSt, iters, iterState, pc>>
        ELSE BulkRequest(call, "gpiod_line_request_bulk_output_flags", h, "output",
                         [i \in 1 .. num_lines |-> ToInt(default_vals[i])])

\* a result table filled back to front
ValuesTableReversed(values) ==
    [i \in 1 .. Len(values) |-> values[Len(values) + 1 - i]]

\* the table bulk:get_values returns: table[i + 1] = values[i]
ValuesTable(values) == [i \in 1 .. Len(values) |-> values[i]]

\* bulk:get_values() with a loop that stops one element early
bulk_get_values_short(h) ==
    LET b == bulks[h]
        num_lines == BulkNumLines(b)
        call == [BulkCall("bulk_get_values", h) EXCEPT
                    !.tbl = IF lastCall.op = "bulk_set_values" /\ lastCall.h = h
                               /\ lastCall.res = "ok"
                            THEN lastCall.tbl ELSE <<>>]
    IN  IF BulkUndefined(b)
        THEN UndefinedBulkCall(call, "gpiod_line_get_value_bulk", "IOFailure")
        ELSE /\ \E io \in BOOLEAN :
                   IF io /\ \A i \in 1 .. num_lines :
                                lineSt[b.chip][b.bulk[i].offset].state # "free"
                   THEN \E values \in [1 .. num_lines -> {0, 1}] :
                           /\ \A i \in 1 .. num_lines :
                                  values[i] \in Levels(lineSt[b.chip][b.bulk[i].offset])
                           /\ lastCall' = [call EXCEPT
                                              !.drv = {"gpiod_line_get_value_bulk"},
                                              !.values = values,
                                              !.vals = SubSeq(ValuesTable(values), 1,
                                                              num_lines - 1)]
                   ELSE lastCall' = [call EXCEPT !.drv = {"gpiod_line_get_value_bulk"},
                                                 !.res = "IOFailure"]
             /\ UNCHANGED <<chips, lineHs, bulks, chipState, lineSt, iters, iterState, pc>>

\* bulk:get_values()
bulk_get_values(h) ==
    LET b == bulks[h]
        num_lines == BulkNumLines(b)
        call == [BulkCall("bulk_get_values", h) EXCEPT
                    !.tbl = IF lastCall.op = "bulk_set_values" /\ lastCall.h = h
                               /\ lastCall.res = "ok"
                            THEN lastCall.tbl ELSE <<>>]
    IN  IF BulkUndefined(b)
        THEN UndefinedBulkCall(call, "gpiod_line_get_value_bulk", "IOFailure")
        ELSE /\ \E io \in BOOLEAN :
                   IF io /\ \A i \in 1 .. num_lines :
                                lineSt[b.chip][b.bulk[i].offset].state # "free"
                   THEN \E values \in [1 .. num_lines -> {0, 1}] :
                           /\ \A i \in 1 .. num_lines :
                                  values[i] \in Levels(lineSt[b.chip][b.bulk[i].offset])
                           /\ lastCall' = [call EXCEPT
                                              !.drv = {"gpiod_line_get_value_bulk"},
                                              !.values = values,
                                              !.vals = ValuesTable(values)]
                   ELSE lastCall' = [call EXCEPT !.drv = {"gpiod_line_get_value_bulk"},
                                                 !.res = "IOFailure"]
             /\ UNCHANGED <<chips, lineHs, bulks, chipState, lineSt, iters, iterState, pc>>

\* bulk:set_values(values_table)
bulk_set_values(h, values_table) ==
    LET b == bulks[h]
        num_lines == BulkNumLines(b)
        call == [BulkCall("bulk_set_values", h) EXCEPT !.len = Len(values_table),
                                                       !.tbl = values_table]
        values == [i \in 1 .. num_lines |-> ToInt(values_table[i])]
    IN  IF ~MarshalOK(values_table, num_lines)
        THEN /\ lastCall' = [call EXCEPT !.res = "ArgError", !.tmp = 1]
             /\ UNCHANGED <<chips, lineHs, bulks, chipState, lineSt, iters, iterState, pc>>
        ELSE IF BulkUndefined(b)
        THEN UndefinedBulkCall(call, "gpiod_line_set_value_bulk", "IOFailure")
        ELSE \E io \in BOOLEAN :
                IF io /\ \A i \in 1 .. num_lines :
                             lineSt[b.chip][b.bulk[i].offset].state = "output"
                THEN /\ lineSt' = [lineSt EXCEPT ![b.chip] = Written(b, values)]
                     /\ lastCall' = [call EXCEPT !.drv = {"gpiod_line_set_value_bulk"},
                                                 !.vals = values]
                     /\ UNCHANGED <<chips, lineHs, bulks, chipState, iters, iterState, pc>>
                ELSE /\ lastCall' = [call EXCEPT !.drv = {"gpiod_line_set_value_bulk"},
                                                 !.res = "IOFailure"]
                     /\ UNCHANGED <<chips, lineHs, bulks, chipState, lineSt, iters, iterState, pc>>

\* gpiod_line_release_bulk: every line of the group that is not free
\* becomes free
Released(b) ==
    [o \in Offsets |-> IF Pos(b, o) = 0 THEN lineSt[b.chip][o]
                       ELSE FreeLine]

\* bulk:release(), also the __gc metamethod of a group
bulk_release(h) ==
    LET b == bulks[h]
        call == [BulkCall("bulk_release", h) EXCEPT !.drv = {"gpiod_line_release_bulk"}]
    IN  /\ bulks' = [bulks EXCEPT ![h].released = TRUE]
        /\ IF BulkNumLines(b) > 0 /\ chipState[b.chip] = "closed"
           THEN /\ \E outcome \in {"ok", "crash"} :
                       lastCall' = [call EXCEPT !.dangling = TRUE, !.res = outcome]
                /\ UNCHANGED <<chips, lineHs, chipState, lineSt, iters, iterState, pc>>
           ELSE /\ lineSt' = [lineSt EXCEPT ![b.chip] = Released(b)]
                /\ lastCall' = [call EXCEPT
                                   !.out = IF Released(b) # lineSt[b.chip] THEN 1 ELSE 0]
                /\ UNCHANGED <<chips, lineHs, chipState, iters, iterState, pc>>

\* ------------------------------------------------------------ enumerator
\* what every enumerator method records of the handle it is called on: pre
\* tells whether close() had returned on it before
IterCall(op, h) == [Call(op, "iter", h) EXCEPT !.pre = iters[h].closed]

\* gpiod.chip_iter().  gpiod_chip_iter_new opens every gpiochip device and
\* keeps the descriptors in an array; it may fail (made = FALSE)
gpiod_chip_iter ==
    \E made \in BOOLEAN :
        LET n == Len(chipState)
            call == [Call("gpiod_chip_iter", "module", 0) EXCEPT
                        !.drv = {"gpiod_chip_iter_new"}]
        IN  /\ Running
            /\ Len(iters) < MaxIters
            /\ n + NumDevices <= MaxChips
            /\ IF made
               THEN /\ chipState' = chipState \o [i \in 1 .. NumDevices |-> "open"]
                    /\ lineSt' = lineSt \o [i \in 1 .. NumDevices |-> FreshLines]
                    /\ iterState' = Append(iterState,
                           [chips |-> [i \in 1 .. NumDevices |-> n + i],
                            offset |-> 0, freed |-> FALSE])
                    /\ iters' = Append(iters, [iter |-> Len(iterState) + 1,
                                               closed |-> FALSE])
                    /\ lastCall' = [call EXCEPT !.out = Len(iters) + 1]
                    /\ UNCHANGED <<chips, lineHs, bulks, pc>>
               ELSE /\ lastCall' = [call EXCEPT !.res = "nil"]
                    /\ UNCHANGED <<chips, lineHs, bulks, iters, chipState, lineSt,
                                   iterState, pc>>

\* the "if (!iter->iter) { lua_pushnil(L); return 1; }" exit of next and
\* next_noclose
IterClosedNil(op, h) ==
    /\ lastCall' = [IterCall(op, h) EXCEPT !.res = "nil"]
    /\ UNCHANGED <<chips, lineHs, bulks, iters, chipState, lineSt, iterState, pc>>

\* gpiod_chip_iter_next_noclose(iter) and the LuaChip made of its result:
\* the next descriptor of the array, none when the array is used up
IterNextNoclose(op, h) ==
    LET i == iters[h].iter
        it == iterState[i]
        call == [IterCall(op, h) EXCEPT !.drv = {"gpiod_chip_iter_next_noclose"}]
    IN  IF it.offset < Len(it.chips)
        THEN /\ iterState' = [iterState EXCEPT ![i].offset = @ + 1]
             /\ chips' = Append(chips, [chip |-> it.chips[it.offset + 1],
                                        closed |-> FALSE, from |-> op, iter |-> h])
             /\ lastCall' = [call EXCEPT !.out = Len(chips) + 1]
             /\ UNCHANGED <<lineHs, bulks, iters, chipState, lineSt, pc>>
        ELSE /\ lastCall' = [call EXCEPT !.res = "nil"]
             /\ UNCHANGED <<chips, lineHs, bulks, iters, chipState, lineSt,
                            iterState, pc>>

\* iter:next() built on gpiod_chip_iter_next, which closes the descriptor
\* it returned the time before
chip_iter_next_closing(h) ==
    LET i == iters[h].iter
        it == iterState[i]
        call == [IterCall("chip_iter_next", h) EXCEPT !.drv = {"gpiod_chip_iter_next"}]
        closing == IF it.offset > 0 THEN {it.chips[it.offset]} ELSE {}
    IN  IF i = NULL THEN IterClosedNil("chip_iter_next", h)
        ELSE /\ chipState' = [d \in DOMAIN chipState |->
                                 IF d \in closing THEN Closed(chipState[d])
                                 ELSE chipState[d]]
             /\ lineSt' = [d \in DOMAIN lineSt |->
                              IF d \in closing THEN FreshLines ELSE lineSt[d]]
             /\ IF it.offset < Len(it.chips)
                THEN /\ iterState' = [iterState EXCEPT ![i].offset = @ + 1]
                     /\ chips' = Append(chips, [chip |-> it.chips[it.offset + 1],
                                                closed |-> FALSE,
                                                from |-> "chip_iter_next", iter |-> h])
                     /\ lastCall' = [call EXCEPT !.out = Len(chips) + 1]
                ELSE /\ lastCall' = [call EXCEPT !.res = "nil"]
                     /\ UNCHANGED <<chips, iterState>>
             /\ UNCHANGED <<lineHs, bulks, iters, pc>>

\* iter:next()
chip_iter_next(h) ==
    IF iters[h].iter = NULL THEN IterClosedNil("chip_iter_next", h)
    ELSE IterNextNoclose("chip_iter_next", h)

\* iter:next_noclose()
chip_iter_next_noclose(h) ==
    IF iters[h].iter = NULL THEN IterClosedNil("chip_iter_next_noclose", h)
    ELSE IterNextNoclose("chip_iter_next_noclose", h)

\* iter:close() that forgets "iter->iter = NULL": the next call hands the
\* freed iterator to libgpiod
chip_iter_close_keeps_pointer(h) ==
    LET i == iters[h].iter
        it == iterState[i]
        unyielded == {it.chips[k] : k \in it.offset + 1 .. Len(it.chips)}
    IN  IF it.freed
        THEN /\ lastCall' = [IterCall("chip_iter_close", h) EXCEPT
                                !.drv = {"gpiod_chip_iter_free_noclose"},
                                !.res = "crash"]
             /\ UNCHANGED <<chips, lineHs, bulks, iters, chipState, lineSt,
                            iterState, pc>>
        ELSE /\ chipState' = [d \in DOMAIN chipState |->
                                 IF d \in unyielded THEN Closed(chipState[d])
                                 ELSE chipState[d]]
             /\ lineSt' = [d \in DOMAIN lineSt |->
                              IF d \in unyielded THEN FreshLines ELSE lineSt[d]]
             /\ iterState' = [iterState EXCEPT ![i].freed = TRUE]
             /\ iters' = [iters EXCEPT ![h].closed = TRUE]
             /\ lastCall' = [IterCall("chip_iter_close", h) EXCEPT
                                !.drv = {"gpiod_chip_iter_free_noclose"}]
             /\ UNCHANGED <<chips, lineHs, bulks, pc>>

\* iter:close(), also the __gc metamethod of an enumerator.
\* gpiod_chip_iter_free_noclose closes the descriptors that have not been
\* returned yet and frees the iterator
chip_iter_close(h) ==
    LET i == iters[h].iter
    IN  IF i # NULL
        THEN LET it == iterState[i]
                 unyielded == {it.chips[k] : k \in it.offset + 1 .. Len(it.chips)}
             IN  /\ chipState' = [d \in DOMAIN chipState |->
                                     IF d \in unyielded THEN Closed(chipState[d])
                                 ELSE chipState[d]]
                 /\ lineSt' = [d \in DOMAIN lineSt |->
                                  IF d \in unyielded THEN FreshLines ELSE lineSt[d]]
                 /\ iterState' = [iterState EXCEPT ![i].freed = TRUE]
                 /\ iters' = [iters EXCEPT ![h].iter = NULL, ![h].closed = TRUE]
                 /\ lastCall' = [IterCall("chip_iter_close", h) EXCEPT
                                    !.drv = {"gpiod_chip_iter_free_noclose"}]
                 /\ UNCHANGED <<chips, lineHs, bulks, pc>>
        ELSE /\ iters' = [iters EXCEPT ![h].closed = TRUE]
             /\ lastCall' = IterCall("chip_iter_close", h)
             /\ UNCHANGED <<chips, lineHs, bulks, chipState, lineSt, iterState, pc>>

\* -------------------------------------------------------------- the machine
\* a Lua integer argument: small ones up to the group size, -1, 2^32 and
\* 2^32 + 1
IntArgs == {Small(n) : n \in 0 .. MaxOffsets} \cup
           {MinusOne, LuaInt(1, 0, 0), LuaInt(1, 0, 1)}

\* the strings handed to gpiod.chip_open: "", numerals, a signed and a
\* padded numeral, 2^32, a numeral followed by text, the name of a device
\* node
Identifiers ==
    {<<>>, <<"0">>, <<"1">>, <<"-", "1">>, <<" ", "0">>, <<"0", "x">>,
     <<"4", "2", "9", "4", "9", "6", "7", "2", "9", "6">>, DeviceName(0)}

\* the timeout argument of line:event_wait: absent, negative, 0 .. MaxTimeout
\* seconds, or not a number
Timeouts == {LuaNil, MinusOne, LuaStr} \cup {Small(n) : n \in 0 .. MaxTimeout}

\* the names of the lines of a chip, and the names find_line is asked for
LineNames == {<<"a">>, <<"b">>}

\* an element of an offsets table: an unsigned offset, or not a number
OffsetElems == {Small(n) : n \in 0 .. NumLines} \cup {LuaStr}

\* an element of a values table (a table shorter than the group yields nil)
ValueElems == {Small(0), Small(1)}

\* the tables of at most n elements of S
Tables(S, n) == UNION {[1 .. k -> S] : k \in 0 .. n}

\* the handles a running program can call methods on
ChipHandles == IF Running THEN DOMAIN chips ELSE {}

LineHandles == IF Running THEN DOMAIN lineHs ELSE {}

BulkHandles == IF Running THEN DOMAIN bulks ELSE {}

IterHandles == IF Running THEN DOMAIN iters ELSE {}

Next ==
    \/ \E name \in Identifiers : chip_open(name)
    \/ \E h \in ChipHandles, offset \in IntArgs : chip_get_line(h, offset)
    \/ \E h \in ChipHandles, offsets \in Tables(OffsetElems, MaxOffsets) :
           chip_get_lines(h, offsets)
    \/ \E h \in ChipHandles, name \in LineNames, names \in [1 .. NumLines -> LineNames] :
           chip_find_line(h, name, names)
    \/ \E h \in ChipHandles : chip_get_all_lines(h)
    \/ \E h \in ChipHandles : chip_name(h)
    \/ \E h \in ChipHandles : chip_label(h)
    \/ \E h \in ChipHandles : chip_num_lines(h)
    \/ \E h \in ChipHandles : chip_close(h)
    \/ \E h \in LineHandles : line_request_input(h)
    \/ \E h \in LineHandles, v \in {0, 1} : line_request_output(h, v)
    \/ \E h \in LineHandles : line_request_rising_edge_events(h)
    \/ \E h \in LineHandles : line_request_falling_edge_events(h)
    \/ \E h \in LineHandles : line_request_both_edges_events(h)
    \/ \E h \in LineHandles : line_request_rising_edge_events_flags(h)
    \/ \E h \in LineHandles : line_request_falling_edge_events_flags(h)
    \/ \E h \in LineHandles : line_request_both_edges_events_flags(h)
    \/ \E h \in LineHandles : line_get_value(h)
    \/ \E h \in LineHandles, v \in {0, 1} : line_set_value(h, v)
    \/ \E h \in LineHandles : line_offset(h)
    \/ \E h \in LineHandles : line_update(h)
    \/ \E h \in LineHandles : line_release(h)
    \/ \E h \in LineHandles, t \in Timeouts : line_event_wait(h, t)
    \/ \E ret \in {-1, 0, 1} : line_event_wait_return(ret)
    \/ \E h \in LineHandles : line_event_read(h)
    \/ \E got \in BOOLEAN : line_event_read_return(got)
    \/ \E d \in DOMAIN lineSt, o \in Offsets, e \in {"rising_edge", "falling_edge"} :
           EdgeEvent(d, o, e)
    \/ Tick
    \/ \E h \in BulkHandles : bulk_num_lines(h)
    \/ \E h \in BulkHandles, index \in IntArgs : bulk_get_line(h, index)
    \/ \E h \in BulkHandles : bulk_request_input(h)
    \/ \E h \in BulkHandles, t \in Tables(ValueElems, MaxOffsets) :
           bulk_request_output(h, t)
    \/ \E h \in BulkHandles : bulk_get_values(h)
    \/ \E h \in BulkHandles, t \in Tables(ValueElems, MaxOffsets) :
           bulk_set_values(h, t)
    \/ \E h \in BulkHandles : bulk_release(h)
    \/ gpiod_chip_iter
    \/ \E h \in IterHandles : chip_iter_next(h)
    \/ \E h \in IterHandles : chip_iter_next_noclose(h)
    \/ \E h \in IterHandles : chip_iter_close(h)

Spec == Init /\ [][Next]_vars

\* the clock runs, and the kernel ends a poll or a read whose event has
\* arrived or whose timeout has passed (an interruption may never come)
LiveSpec ==
    /\ Spec
    /\ WF_vars(Tick)
    /\ WF_vars(line_event_wait_return(0) \/ line_event_wait_return(1))
    /\ WF_vars(line_event_read_return(TRUE))

\* ------------------------------------------------------------------ claims
ChipAccessors == {"chip_name", "chip_label", "chip_num_lines", "chip_get_line",
                  "chip_get_lines", "chip_find_line", "chip_get_all_lines"}

LineRequests == {"line_request_input", "line_request_output",
                 "line_request_rising_edge_events", "line_request_falling_edge_events",
                 "line_request_both_edges_events",
                 "line_request_rising_edge_events_flags",
                 "line_request_falling_edge_events_flags",
                 "line_request_both_edges_events_flags"}

\* the Lua integer x is one of 0 .. n - 1
InIndexRange(x, n) == x.hi = 0 /\ x.mid = 0 /\ x.lo < n

\* C1: once close() has returned on a controller handle, the handle stays
\* closed; name, label, num_lines, get_line, get_lines, find_line and
\* get_all_lines on it raise the closed-resource error without a driver
\* call, and a further close() returns normally, calls no driver function
\* and leaves the descriptors as they are.
C1_ClosedControllerRejects ==
    [][\A h \in DOMAIN chips :
          chips[h].closed =>
              /\ chips'[h].closed
              /\ chips'[h].chip = NULL
              /\ (lastCall'.kind = "chip" /\ lastCall'.h = h
                      /\ lastCall'.op \in ChipAccessors)
                     => (lastCall'.res = "ClosedResource" /\ lastCall'.drv = {})
              /\ (lastCall'.kind = "chip" /\ lastCall'.h = h
                      /\ lastCall'.op = "chip_close")
                     => (/\ lastCall'.res = "ok"
                         /\ lastCall'.drv = {}
                         /\ chipState' = chipState)]_vars

\* an accessor was called on a controller handle after close()
C1_Witness ==
    /\ lastCall.kind = "chip"
    /\ lastCall.op \in ChipAccessors
    /\ lastCall.pre
    /\ lastCall.res = "ClosedResource"

\* C2: once release() has returned on a line handle, get_value and
\* set_value on it raise the released-resource error without a driver call,
\* and a further release() returns normally, calls no driver function and
\* changes no line.
C2_ReleasedLineRejects ==
    [][\A h \in DOMAIN lineHs :
          lineHs[h].released =>
              /\ (lastCall'.kind = "line" /\ lastCall'.h = h
                      /\ lastCall'.op \in {"line_get_value", "line_set_value"})
                     => (lastCall'.res = "ReleasedResource" /\ lastCall'.drv = {})
              /\ (lastCall'.kind = "line" /\ lastCall'.h = h
                      /\ lastCall'.op = "line_release")
                     => (/\ lastCall'.res = "ok"
                         /\ lastCall'.drv = {}
                         /\ lineSt' = lineSt)]_vars

\* get_value or set_value was called on a line handle after release()
C2_Witness ==
    /\ lastCall.kind = "line"
    /\ lastCall.op \in {"line_get_value", "line_set_value"}
    /\ lastCall.pre
    /\ lastCall.res = "ReleasedResource"

\* C3: group request_output with a defaults table whose length differs from
\* num_lines() fails (the argument error raised for a missing element is
\* counted as the request error) and the driver's group request is not
\* invoked.  Stated for the groups that have a line.
C3_DefaultsLengthChecked ==
    (/\ lastCall.op = "bulk_request_output"
     /\ BulkNumLines(bulks[lastCall.h]) > 0
     /\ lastCall.len # BulkNumLines(bulks[lastCall.h]))
        => /\ lastCall.res \in {"RequestFailed", "ArgError"}
           /\ lastCall.drv = {}

\* C4: group set_values with a values table whose length differs from
\* num_lines() is rejected as an error before the driver's bulk write is
\* invoked.  Stated for the groups that have a line.
C4_ValuesLengthChecked ==
    (/\ lastCall.op = "bulk_set_values"
     /\ BulkNumLines(bulks[lastCall.h]) > 0
     /\ lastCall.len # BulkNumLines(bulks[lastCall.h]))
        => /\ lastCall.res # "ok"
           /\ lastCall.drv = {}

\* C5: an operation on a line or group handle whose controller has been
\* closed either calls no driver function or fails with ClosedResource; the
\* driver is never handed a line of a closed controller.
C5_NoDriverCallAfterClose ==
    (lastCall.kind \in {"line", "bulk"} /\ lastCall.closed)
        => /\ ~lastCall.dangling
           /\ (lastCall.drv = {} \/ lastCall.res = "ClosedResource")

C7_OutOfRangeIndexRejected ==
    (/\ lastCall.op = "bulk_get_line"
     /\ ~InIndexRange(lastCall.arg, BulkNumLines(bulks[lastCall.h])))
        => /\ lastCall.res = "IndexOutOfRange"
           /\ lastCall.out = 0

\* C8: a release() of a group handle on which release() has returned before
\* changes no line and does not invoke the driver's release on the lines of
\* the group.
C8_GroupReleaseIdempotent ==
    (/\ lastCall.op = "bulk_release"
     /\ lastCall.pre
     /\ BulkNumLines(bulks[lastCall.h]) > 0)
        => /\ lastCall.drv = {}
           /\ lastCall.out = 0

\* C9: once release() has returned on a line handle the handle stays
\* released, its native reference stays null, and every request_input,
\* request_output and request_*_edge_events call on it fails with the
\* released-resource error, leaving every line as it is.
C9_ReleasedIsTerminal ==
    [][\A h \in DOMAIN lineHs :
          lineHs[h].released =>
              /\ lineHs'[h].released
              /\ lineHs'[h].line = NULL_LINE
              /\ (lastCall'.kind = "line" /\ lastCall'.h = h
                      /\ lastCall'.op \in LineRequests)
                     => (/\ lastCall'.res = "ReleasedResource"
                         /\ lineSt' = lineSt)]_vars

\* a request was made on a line handle after release()
C9_Witness ==
    /\ lastCall.kind = "line"
    /\ lastCall.op \in LineRequests
    /\ lastCall.pre
    /\ lastCall.res = "ReleasedResource"

\* C10: get_value and set_value on a line handle that is not released and
\* whose line has never been requested fail with ReleasedResource without a
\* driver call.
C10_UnrequestedRejectedByHandle ==
    (/\ lastCall.kind = "line"
     /\ lastCall.op \in {"line_get_value", "line_set_value"}
     /\ ~lastCall.pre
     /\ ~lastCall.closed
     /\ lineSt[lineHs[lastCall.h].line.chip][lineHs[lastCall.h].line.offset].state = "free")
        => /\ lastCall.res = "ReleasedResource"
           /\ lastCall.drv = {}

\* C11: a request_input, request_output or request_*_edge_events call on a
\* line handle whose line is requested (as input, output or for edge
\* events) fails with RequestFailed and changes no line; the mode of a
\* requested line changes only by the line becoming free.
C11_RequestedStaysRequested ==
    [][/\ \A h \in DOMAIN lineHs :
             (/\ lineHs[h].line # NULL_LINE
              /\ ~Dangling(lineHs[h].line)
              /\ lineSt[lineHs[h].line.chip][lineHs[h].line.offset].state # "free"
              /\ lastCall'.kind = "line"
              /\ lastCall'.h = h
              /\ lastCall'.op \in LineRequests)
                 => (lastCall'.res = "RequestFailed" /\ lineSt' = lineSt)
       /\ \A d \in DOMAIN lineSt : \A o \in Offsets :
             lineSt[d][o].state # "free"
                 => lineSt'[d][o].state \in {lineSt[d][o].state, "free"}]_vars

\* a request on a handle of a requested line was refused
C11_Witness ==
    /\ lastCall.kind = "line"
    /\ lastCall.op \in LineRequests
    /\ lastCall.res = "RequestFailed"
    /\ ~lastCall.closed
    /\ lineSt[lineHs[lastCall.h].line.chip][lineHs[lastCall.h].line.offset].state
           \in {"input", "output", "rising", "falling", "both"}

\* the line behind handle h is requested for edge events
Armed(h) ==
    /\ lineHs[h].line # NULL_LINE
    /\ ~Dangling(lineHs[h].line)
    /\ lineSt[lineHs[h].line.chip][lineHs[h].line.offset].state \in EdgeModes

\* the queued events of the line behind handle h
Pending(h) == lineSt[lineHs[h].line.chip][lineHs[h].line.offset].events

\* C12: event_wait leaves every event queue as it is.  With an event
\* queued, event_wait returns true at once and event_read returns at once
\* with the oldest queued event, taking that one event off the queue
\* (unless the driver call reports an I/O error); an event_read that
\* follows an event_wait that returned true reads the event the wait found.
C12_EventWaitKeepsQueue ==
    [][/\ (lastCall'.kind = "line" /\ lastCall'.op = "line_event_wait")
              => lineSt' = lineSt
       /\ \A h \in DOMAIN lineHs :
             (/\ Armed(h)
              /\ Pending(h) # <<>>
              /\ lastCall'.kind = "line"
              /\ lastCall'.h = h)
                 => /\ (lastCall'.op = "line_event_wait")
                          => (/\ pc' = Idle
                              /\ lastCall'.res \in {"ok", "IOFailure", "ArgError"}
                              /\ (lastCall'.res = "ok" => lastCall'.out = 1))
                    /\ (lastCall'.op = "line_event_read")
                          => (/\ pc' = Idle
                              /\ lastCall'.res \in {"ok", "IOFailure"}
                              /\ (lastCall'.res = "ok"
                                     => (/\ lastCall'.ev = Head(Pending(h))
                                         /\ Pending(h)' = Tail(Pending(h)))))
       /\ (/\ lastCall.op = "line_event_wait"
           /\ lastCall.res = "ok"
           /\ lastCall.out = 1
           /\ lastCall'.op = "line_event_read"
           /\ lastCall'.h = lastCall.h
           /\ lastCall'.res = "ok")
              => lastCall'.ev = lastCall.ev]_vars

\* event_wait has returned true and the event it found is still queued
C12_Witness ==
    /\ lastCall.op = "line_event_wait"
    /\ lastCall.res = "ok"
    /\ lastCall.out = 1
    /\ Armed(lastCall.h)
    /\ Pending(lastCall.h) # <<>>
    /\ lastCall.ev = Head(Pending(lastCall.h))

FiniteTimeout(t) == t.t = "integer" /\ t.hi >= 0

\* C14: an event_wait with a finite timeout >= 0 returns: blocked on a line
\* with no event queued, it returns false when the timeout has passed and no
\* event has arrived (true when one has).  With the timeout absent or
\* negative it returns only with an event queued, and returns true.
C14_TimedWaitReturns ==
    /\ (pc.op = "line_event_wait" /\ FiniteTimeout(pc.arg)) ~> (pc = Idle)
    /\ [][(pc.op = "line_event_wait" /\ pc' = Idle /\ lastCall'.res = "ok")
             => /\ lastCall'.op = "line_event_wait"
                /\ (lastCall'.out = 0)
                       => (/\ FiniteTimeout(pc.arg)
                           /\ pc.left = 0
                           /\ Pending(pc.h) = <<>>)
                /\ (lastCall'.out = 1) => Pending(pc.h) # <<>>
                /\ ~FiniteTimeout(pc.arg) => lastCall'.out = 1]_vars
    /\ [](pc.op = "line_event_wait"
             => (FiniteTimeout(pc.arg) <=> pc.left >= 0))

\* a blocked event_wait with a finite timeout has returned false
C14_Witness ==
    /\ lastCall.op = "line_event_wait"
    /\ lastCall.blocked
    /\ FiniteTimeout(lastCall.arg)
    /\ lastCall.res = "ok"
    /\ lastCall.out = 0

\* the string is a numeral of an unsigned integer: digits, at least one
IsUnsignedNumeral(str) == Len(str) > 0 /\ \A i \in DOMAIN str : IsDigit(str[i])

\* C15: chip_open tries the identifier as a name first; it tries it as an
\* index only if the name did not resolve and the identifier is the numeral
\* of an unsigned integer (the empty string is none); it returns a handle
\* when one of the two resolves and fails with DeviceNotFound, creating no
\* handle, when neither does.
C15_OpenByNameThenIndex ==
    (lastCall.op = "chip_open")
        => /\ "gpiod_chip_open_by_name" \in lastCall.drv
           /\ ("gpiod_chip_open_by_number" \in lastCall.drv)
                  => (lastCall.vals[1] = 0 /\ IsUnsignedNumeral(lastCall.name))
           /\ (lastCall.res = "ok")
                  <=> (\E i \in DOMAIN lastCall.vals : lastCall.vals[i] = 1)
           /\ (lastCall.res # "ok")
                  => (lastCall.res = "DeviceNotFound" /\ lastCall.out = 0)

\* C16: once close() has returned on an enumerator handle, the handle stays
\* closed; next() and next_noclose() on it return the empty result without
\* an error, without a driver call and without making a controller handle,
\* and a further close() returns normally, calls no driver function and
\* changes nothing.
C16_ClosedEnumeratorIsEmpty ==
    [][\A h \in DOMAIN iters :
          iters[h].closed =>
              /\ iters'[h].closed
              /\ iters'[h].iter = NULL
              /\ (lastCall'.kind = "iter" /\ lastCall'.h = h
                      /\ lastCall'.op \in {"chip_iter_next", "chip_iter_next_noclose"})
                     => (/\ lastCall'.res = "nil"
                         /\ lastCall'.drv = {}
                         /\ chips' = chips
                         /\ iterState' = iterState)
              /\ (lastCall'.kind = "iter" /\ lastCall'.h = h
                      /\ lastCall'.op = "chip_iter_close")
                     => (/\ lastCall'.res = "ok"
                         /\ lastCall'.drv = {}
                         /\ chipState' = chipState
                         /\ iterState' = iterState)]_vars

\* next() or next_noclose() was called on an enumerator after close()
C16_Witness ==
    /\ lastCall.kind = "iter"
    /\ lastCall.op \in {"chip_iter_next", "chip_iter_next_noclose"}
    /\ lastCall.pre
    /\ lastCall.res = "nil"

\* C17: the descriptor of a controller that the enumerator's next() has
\* yielded is closed by no enumerator operation; it stays open until
\* close() is called on the controller handle.
C17_YieldedByNextIsCallers ==
    [][\A c \in DOMAIN chips :
          (/\ chips[c].from = "chip_iter_next"
           /\ chips[c].chip # NULL
           /\ chipState[chips[c].chip] = "open")
              => \/ chipState'[chips[c].chip] = "open"
                 \/ (/\ lastCall'.kind = "chip"
                     /\ lastCall'.op = "chip_close"
                     /\ lastCall'.h = c)]_vars

\* the enumerator has been closed and the controller its next() had
\* yielded is still open
C17_Witness ==
    /\ lastCall.kind = "iter"
    /\ lastCall.op = "chip_iter_close"
    /\ lastCall.drv # {}
    /\ \E c \in DOMAIN chips :
           /\ chips[c].from = "chip_iter_next"
           /\ chips[c].iter = lastCall.h
           /\ chips[c].chip # NULL
           /\ chipState[chips[c].chip] = "open"

\* C18: once the enumerator has been closed, the descriptor of every
\* controller its next_noclose() has yielded is closed, whether or not
\* close() was called on the controller handle.
C18_YieldedByNextNocloseIsClosed ==
    \A c \in DOMAIN chips :
        (/\ chips[c].from = "chip_iter_next_noclose"
         /\ iters[chips[c].iter].closed
         /\ chips[c].chip # NULL)
            => chipState[chips[c].chip] = "closed"

\* the lines of group h are held, as outputs, by the group's own request
HeldAsOutput(h) ==
    /\ BulkNumLines(bulks[h]) > 0
    /\ chipState[bulks[h].chip] = "open"
    /\ \A i \in DOMAIN bulks[h].bulk :
           /\ lineSt[bulks[h].chip][bulks[h].bulk[i].offset].state = "output"
           /\ lineSt[bulks[h].chip][bulks[h].bulk[i].offset].req = h

\* C19: on a group whose lines are requested as output by the group's
\* request_output (an output reads back the level written to it), a
\* get_values() that follows a set_values(v) with v of num_lines() elements,
\* each 0 or 1, returns v: element i is written to and read from line i.
C19_SetThenGetValues ==
    [][(/\ lastCall.op = "bulk_set_values"
        /\ lastCall.res = "ok"
        /\ HeldAsOutput(lastCall.h)
        /\ Len(lastCall.tbl) = BulkNumLines(bulks[lastCall.h])
        /\ \A i \in DOMAIN lastCall.tbl : lastCall.tbl[i] \in {Small(0), Small(1)}
        /\ lastCall'.op = "bulk_get_values"
        /\ lastCall'.h = lastCall.h
        /\ lastCall'.res = "ok")
           => /\ Len(lastCall'.vals) = Len(lastCall.tbl)
              /\ \A i \in DOMAIN lastCall.tbl :
                     Small(lastCall'.vals[i]) = lastCall.tbl[i]]_vars

\* get_values() has returned <<1, 0>> or <<0, 1>> right after set_values
\* wrote it to a group of two lines
C19_Witness ==
    /\ lastCall.op = "bulk_get_values"
    /\ lastCall.res = "ok"
    /\ HeldAsOutput(lastCall.h)
    /\ Len(lastCall.vals) = 2
    /\ lastCall.vals[1] # lastCall.vals[2]
    /\ lastCall.tbl = <<Small(lastCall.vals[1]), Small(lastCall.vals[2])>>

\* C20: find_line(name) on an open controller returns nil, without an error
\* and without a new handle, when no line is called name, and otherwise a
\* handle of the first line called name; it raises an error only on a
\* closed controller.
C20_FindLineMissIsNil ==
    [][lastCall'.op = "chip_find_line" =>
          /\ lastCall'.res \notin {"ok", "nil"} => lastCall'.pre
          /\ ~lastCall'.pre =>
                 IF \A o \in Offsets : lastCall'.names[o + 1] # lastCall'.name
                 THEN lastCall'.res = "nil" /\ lineHs' = lineHs
                 ELSE /\ lastCall'.res = "ok"
                      /\ lineHs' = Append(lineHs, lineHs'[lastCall'.out])
                      /\ lineHs'[lastCall'.out].line.offset \in Offsets
                      /\ lastCall'.names[lineHs'[lastCall'.out].line.offset + 1]
                            = lastCall'.name
                      /\ \A o \in Offsets :
                             o < lineHs'[lastCall'.out].line.offset
                                => lastCall'.names[o + 1] # lastCall'.name
                      /\ lineHs'[lastCall'.out].line.chip = chips[lastCall'.h].chip]_vars

\* find_line has returned nil on an open controller none of whose lines is
\* called name
C20_Witness ==
    /\ lastCall.op = "chip_find_line"
    /\ ~lastCall.pre
    /\ lastCall.res = "nil"
    /\ \A o \in Offsets : lastCall.names[o + 1] # lastCall.name

BulkOperations == {"bulk_request_input", "bulk_request_output",
                   "bulk_get_values", "bulk_set_values"}

\* C21: a request_input, request_output, get_values or set_values on a group
\* handle on which release() has returned fails with the released-resource
\* error without a call of the driver (a table the call cannot marshal is
\* refused as an argument error before that).
C21_ReleasedGroupRejects ==
    (/\ lastCall.op \in BulkOperations
     /\ lastCall.pre
     /\ lastCall.res # "ArgError")
        => /\ lastCall.res = "ReleasedResource"
           /\ lastCall.drv = {}

\* C22: a get_values() that succeeds on a group of at least one line of an
\* open controller returns exactly num_lines() elements, element i + 1 being
\* the value the driver reported for group line i; when the driver's read
\* fails the call fails with IOFailure and returns no table.
C22_GetValuesPositional ==
    (/\ lastCall.op = "bulk_get_values"
     /\ ~lastCall.closed
     /\ BulkNumLines(bulks[lastCall.h]) > 0)
        => IF lastCall.res = "ok"
           THEN /\ Len(lastCall.values) = BulkNumLines(bulks[lastCall.h])
                /\ Len(lastCall.vals) = BulkNumLines(bulks[lastCall.h])
                /\ \A i \in DOMAIN lastCall.vals : lastCall.vals[i] = lastCall.values[i]
           ELSE /\ lastCall.res = "IOFailure"
                /\ lastCall.vals = <<>>

\* get_values() has returned <<0, 1>> for a group of two lines it had not
\* written
C22_Witness ==
    /\ lastCall.op = "bulk_get_values"
    /\ ~lastCall.closed
    /\ lastCall.res = "ok"
    /\ lastCall.tbl = <<>>
    /\ lastCall.vals = <<0, 1>>
    /\ BulkNumLines(bulks[lastCall.h]) = 2

\* C23: release() (or the finalizer) of a line handle frees no line whose
\* request is held through another line handle or through a group: such a
\* line stays as it is.
C23_ReleaseIsPerHandle ==
    [][lastCall'.op = "line_release" =>
          \A d \in DOMAIN lineSt : \A o \in Offsets :
              (lineSt[d][o].state # "free" /\ lineSt[d][o].req # 0 - lastCall'.h)
                 => lineSt'[d][o] = lineSt[d][o]]_vars

TempArrayOperations == {"chip_get_lines", "bulk_request_output",
                        "bulk_get_values", "bulk_set_values"}

\* C25: when get_lines, group request_output, get_values or set_values
\* returns or raises, the argument error for a missing or non-integer table
\* element included, the temporary array of the call has been freed.
C25_TempArraysFreed ==
    (lastCall.op \in TempArrayOperations /\ lastCall.res # "crash")
        => lastCall.tmp = 0

\* the errors a line method raises when its driver call fails
DriverFailures == {"RequestFailed", "IOFailure"}

\* C26: a request_*, get_value, set_value, event_wait, event_read or update
\* on a line handle that fails with a driver error leaves the handle as it
\* was, its native reference non-null and the handle not released; and when
\* the line is free a request through the same handle can succeed next.
C26_FailureKeepsHandle ==
    /\ [][(/\ lastCall'.kind = "line"
           /\ lastCall'.res \in DriverFailures)
              => /\ lineHs' = lineHs
                 /\ lineHs'[lastCall'.h].line # NULL_LINE
                 /\ ~lineHs'[lastCall'.h].released]_vars
    /\ [](( /\ lastCall.kind = "line"
            /\ lastCall.res \in DriverFailures
            /\ Running
            /\ ~Dangling(lineHs[lastCall.h].line)
            /\ lineSt[lineHs[lastCall.h].line.chip][lineHs[lastCall.h].line.offset].state
                  = "free")
               => ENABLED (/\ lastCall.h \in LineHandles
                           /\ line_request_input(lastCall.h)
                           /\ lastCall'.res = "ok"))

\* get_value has failed in the driver on a live handle of a free line
C26_Witness ==
    /\ lastCall.op = "line_get_value"
    /\ lastCall.res = "IOFailure"
    /\ ~lastCall.pre
    /\ ~lastCall.closed
    /\ lineHs[lastCall.h].line # NULL_LINE
    /\ lineSt[lineHs[lastCall.h].line.chip][lineHs[lastCall.h].line.offset].state
          = "free"

====
